---------------------------- MODULE Spec2Model ----------------------------
(***************************************************************************)
(* Model of the ESP32 PC hardware monitor firmware (src/src/main.cpp):     *)
(* the serial line reader, the telemetry decoder parseMessage, the         *)
(* connection-liveness check, the power-saving state machine and the       *)
(* throttled display update, all run from one cooperative loop().          *)
(*                                                                         *)
(* Text is held as TLA+ strings; a character is a string of length 1.      *)
(* float fields are held in tenths (45.2 is 452), which is the resolution  *)
(* of the values the inputs below carry; int fields are held in units.     *)
(***************************************************************************)
EXTENDS Integers, Sequences, FiniteSets, TLC

VARIABLES
    metrics,        \* the global SystemMetrics record
    serialBuffer,   \* the bytes serialBuffer[0 .. bufferIndex-1]
    now,            \* the value millis() returns
    pc,             \* the stage of loop() that runs next
    lastUpdate,     \* the static lastUpdate of updateDisplay
    backlight,      \* the level last passed to Set_Backlight
    cpuMhz,         \* the frequency last passed to setCpuFrequencyMhz
    ui,             \* the values last pushed by the ui_update_* calls
    lastLine,       \* the text of the last call of parseMessage
    lastRet,        \* what that call returned
    lastErr,        \* the error it printed ("" when it printed none)
    pre,            \* metrics as they were when that call began
    msg,            \* the host message behind the last decoded line
    again,          \* whether the host message decoded before it was the same
    prevRet,        \* what parseMessage returned for that earlier message
    overflows,      \* how often the last processSerialData reported an overflow
    calls,          \* the backlight and CPU requests the last step issued
    prevUpdate,     \* lastUpdate before the last propagation, -1 before the second
    decoded,        \* the lines the last processSerialData passed to parseMessage
    stream,         \* the bytes the host has sent that Serial has yet to deliver
    sent,           \* the bytes processSerialData has consumed since boot
    lines,          \* the lines passed to parseMessage since boot
    reports         \* the overflows reported since boot

vars == <<metrics, serialBuffer, now, pc, lastUpdate, backlight, cpuMhz, ui,
          lastLine, lastRet, lastErr, pre, msg, again, prevRet,
          overflows, calls, prevUpdate, decoded, stream, sent, lines, reports>>

\* the record of a byte stream and of what the reader made of it
host == <<stream, sent, lines, reports>>

---------------------------------------------------------------------------
(* Program constants.                                                      *)

SERIAL_BUFFER_SIZE == 128
DATA_TIMEOUT_MS == 5000
POWER_SAVE_BACKLIGHT == 0
NORMAL_BACKLIGHT == 5
POWER_SAVE_DELAY_MS == 10000

---------------------------------------------------------------------------
(* The C library routines the decoder calls, on strings.                   *)

\* s[i], or "" (the terminating NUL) past the end of the string
CharAt(s, i) == IF i >= 1 /\ i <= Len(s) THEN SubSeq(s, i, i) ELSE ""

\* the C string that starts at position i of s (pos + n in the code)
From(s, i) == SubSeq(s, i, Len(s))

IsDigit(c) == c \in {"0", "1", "2", "3", "4", "5", "6", "7", "8", "9"}

DigitVal(c) ==
    CASE c = "0" -> 0 [] c = "1" -> 1 [] c = "2" -> 2 [] c = "3" -> 3
      [] c = "4" -> 4 [] c = "5" -> 5 [] c = "6" -> 6 [] c = "7" -> 7
      [] c = "8" -> 8 [] c = "9" -> 9

IsSpace(c) == c \in {" ", "\t"}

\* strstr: the position of the first occurrence of needle in hay, 0 for NULL
strstr(hay, needle) ==
    LET n == Len(needle)
        hits == {i \in 1..(Len(hay) - n + 1) : SubSeq(hay, i, i + n - 1) = needle}
    IN  IF hits = {} THEN 0 ELSE CHOOSE i \in hits : \A j \in hits : i <= j

RECURSIVE SkipSpace(_, _)
SkipSpace(s, i) == IF IsSpace(CharAt(s, i)) THEN SkipSpace(s, i + 1) ELSE i

\* the first position at or after i that holds no decimal digit
RECURSIVE DigitsEnd(_, _)
DigitsEnd(s, i) == IF IsDigit(CharAt(s, i)) THEN DigitsEnd(s, i + 1) ELSE i

\* the number written by the digits s[i .. j-1], continuing from acc
RECURSIVE DigitsVal(_, _, _, _)
DigitsVal(s, i, j, acc) ==
    IF i >= j THEN acc ELSE DigitsVal(s, i + 1, j, acc * 10 + DigitVal(CharAt(s, i)))

\* the position after an optional sign at a
SignEnd(s, a) == IF CharAt(s, a) \in {"+", "-"} THEN a + 1 ELSE a

\* the position after an optional fraction ".digits" at c
FracEnd(s, c) == IF CharAt(s, c) = "." THEN DigitsEnd(s, c + 1) ELSE c

\* the conversion of s from i, given where the sign (a), the integer digits
\* (b), the point (c) and the rest (d) start: whether a number was converted,
\* its value in tenths (digits after the first decimal are below the model's
\* resolution), and where conversion stopped
Convert(s, i, a, b, c, d) ==
    LET nFrac == IF d > c THEN d - (c + 1) ELSE 0
        ok == (c - b) + nFrac > 0
        mag == DigitsVal(s, b, c, 0) * 10
               + (IF nFrac > 0 THEN DigitVal(CharAt(s, c + 1)) ELSE 0)
    IN  [ok |-> ok,
         val |-> IF ~ok THEN 0 ELSE IF CharAt(s, a) = "-" THEN 0 - mag ELSE mag,
         end |-> IF ok THEN d ELSE i]

\* strtod on the decimal forms [space][sign]digits[.digits] and [sign].digits
strtod(s, i) ==
    LET a == SkipSpace(s, i)
        b == SignEnd(s, a)
        c == DigitsEnd(s, b)
        d == FracEnd(s, c)
    IN  Convert(s, i, a, b, c, d)

\* atof: the converted value, 0.0 when nothing could be converted
atof(s) == strtod(s, 1).val

\* atoi: [space][sign]digits, 0 when there is no digit
atoi(s) ==
    LET a == SkipSpace(s, 1)
        neg == CharAt(s, a) = "-"
        b == IF CharAt(s, a) \in {"+", "-"} THEN a + 1 ELSE a
        v == DigitsVal(s, b, DigitsEnd(s, b), 0)
    IN  IF neg THEN 0 - v ELSE v

\* sscanf after the first %f has given f1: the separator must match and the
\* second %f convert for the second value to be assigned
Scanned(s, sep, f1) ==
    IF ~f1.ok THEN [n |-> 0, x |-> 0, y |-> 0]
    ELSE IF CharAt(s, f1.end) # sep THEN [n |-> 1, x |-> f1.val, y |-> 0]
    ELSE LET f2 == strtod(s, f1.end + 1)
         IN  IF f2.ok THEN [n |-> 2, x |-> f1.val, y |-> f2.val]
             ELSE [n |-> 1, x |-> f1.val, y |-> 0]

\* sscanf(s, "%f<sep>%f", &x, &y): how many of x, y were assigned, and to what
sscanf2(s, sep) == Scanned(s, sep, strtod(s, 1))

---------------------------------------------------------------------------
(* The telemetry decoder.                                                  *)

Tenths(units) == units * 10

\* Faulty variant (sensitivity of C5): the token is not looked for at all.
validateChecksumAlways(message) == TRUE

\* Faulty variant (sensitivity of C10): a received checksum of 0 is refused.
validateChecksumNonZero(message) ==
    LET chk_pos == strstr(message, ",CHK:")
    IN  IF chk_pos = 0 THEN FALSE ELSE atoi(From(message, chk_pos + 5)) # 0

\* validateChecksum: the token ",CHK:" must occur; its value is parsed and
\* then ignored
validateChecksum(message) ==
    LET chk_pos == strstr(message, ",CHK:")
        received_checksum == IF chk_pos = 0 THEN 0 ELSE atoi(From(message, chk_pos + 5))
    IN  IF chk_pos = 0 THEN FALSE ELSE TRUE

\* Faulty variant (sensitivity of C6): the optional fields are not reset.
ResetNothing(m) == m

\* "Reset optional fields to default values"
ResetOptional(m) ==
    [m EXCEPT !.cpu_freq_ghz = 0, !.gpu_usage = 0, !.ram_used_gb = 0,
              !.ram_total_gb = 0, !.fan_rpm = 0, !.net_download_mbps = 0,
              !.net_upload_mbps = 0, !.battery_percent = -1, !.power_watts = 0]

\* Faulty variant (sensitivity of C8): the value is added to the stored one.
ParseCPUAdd(m, message) ==
    LET pos == strstr(message, "CPU:")
    IN  IF pos # 0
        THEN [found |-> TRUE,
              m |-> [m EXCEPT !.cpu_usage = @ + atof(From(message, pos + 4))]]
        ELSE [found |-> FALSE, m |-> m]

\* Faulty variant (sensitivity of C3): the key is looked for without its colon.
ParseRAMNoColon(m, message) ==
    LET pos == strstr(message, "RAM")
    IN  IF pos # 0
        THEN [found |-> TRUE, m |-> [m EXCEPT !.ram_usage = atof(From(message, pos + 4))]]
        ELSE [found |-> FALSE, m |-> m]

\* Faulty variant (sensitivity of C9): TEMP is looked for after the RAM token.
ParseTEMPAfterRAM(m, message) ==
    LET from == strstr(message, "RAM:")
        rest == From(message, from)
        pos == strstr(rest, "TEMP:")
    IN  IF pos # 0
        THEN [found |-> TRUE, m |-> [m EXCEPT !.temperature = atof(From(rest, pos + 5))]]
        ELSE [found |-> FALSE, m |-> m]

\* Faulty variant (sensitivity of C30): a value that converts to no number
\* counts as a missing field.
ParseRAMChecked(m, message) ==
    LET pos == strstr(message, "RAM:")
    IN  IF pos # 0 /\ strtod(From(message, pos + 4), 1).ok
        THEN [found |-> TRUE, m |-> [m EXCEPT !.ram_usage = atof(From(message, pos + 4))]]
        ELSE [found |-> FALSE, m |-> m]

\* the three required fields: found says whether the key was located
ParseCPU(m, message) ==
    LET pos == strstr(message, "CPU:")
    IN  IF pos # 0
        THEN [found |-> TRUE, m |-> [m EXCEPT !.cpu_usage = atof(From(message, pos + 4))]]
        ELSE [found |-> FALSE, m |-> m]

ParseRAM(m, message) ==
    LET pos == strstr(message, "RAM:")
    IN  IF pos # 0
        THEN [found |-> TRUE, m |-> [m EXCEPT !.ram_usage = atof(From(message, pos + 4))]]
        ELSE [found |-> FALSE, m |-> m]

ParseTEMP(m, message) ==
    LET pos == strstr(message, "TEMP:")
    IN  IF pos # 0
        THEN [found |-> TRUE, m |-> [m EXCEPT !.temperature = atof(From(message, pos + 5))]]
        ELSE [found |-> FALSE, m |-> m]

\* the optional fields, each stored only when its key is located
ParseFREQ(m, message) ==
    LET pos == strstr(message, "FREQ:")
    IN  IF pos # 0 THEN [m EXCEPT !.cpu_freq_ghz = atof(From(message, pos + 5))] ELSE m

ParseGPU(m, message) ==
    LET pos == strstr(message, "GPU:")
    IN  IF pos # 0 THEN [m EXCEPT !.gpu_usage = atof(From(message, pos + 4))] ELSE m

\* Faulty variant (sensitivity of C2): the two values are split at a comma.
ParseRAMGBComma(m, message) ==
    LET pos == strstr(message, "RAMGB:")
        r == sscanf2(From(message, pos + 6), ",")
    IN  IF pos # 0
        THEN [m EXCEPT !.ram_used_gb = IF r.n >= 1 THEN r.x ELSE @,
                       !.ram_total_gb = IF r.n >= 2 THEN r.y ELSE @]
        ELSE m

ParseRAMGB(m, message) ==
    LET pos == strstr(message, "RAMGB:")
        r == sscanf2(From(message, pos + 6), "/")
    IN  IF pos # 0
        THEN [m EXCEPT !.ram_used_gb = IF r.n >= 1 THEN r.x ELSE @,
                       !.ram_total_gb = IF r.n >= 2 THEN r.y ELSE @]
        ELSE m

ParseFAN(m, message) ==
    LET pos == strstr(message, "FAN:")
    IN  IF pos # 0 THEN [m EXCEPT !.fan_rpm = atoi(From(message, pos + 4))] ELSE m

ParseNET(m, message) ==
    LET pos == strstr(message, "NET:")
        r == sscanf2(From(message, pos + 4), ",")
    IN  IF pos # 0
        THEN [m EXCEPT !.net_download_mbps = IF r.n >= 1 THEN r.x ELSE @,
                       !.net_upload_mbps = IF r.n >= 2 THEN r.y ELSE @]
        ELSE m

ParseBAT(m, message) ==
    LET pos == strstr(message, "BAT:")
    IN  IF pos # 0 THEN [m EXCEPT !.battery_percent = atoi(From(message, pos + 4))] ELSE m

ParsePOWER(m, message) ==
    LET pos == strstr(message, "POWER:")
    IN  IF pos # 0 THEN [m EXCEPT !.power_watts = atof(From(message, pos + 6))] ELSE m

ParseOptional(m, message) ==
    ParsePOWER(ParseBAT(ParseNET(ParseFAN(ParseRAMGB(ParseGPU(ParseFREQ(m, message),
        message), message), message), message), message), message)

\* Faulty variant (sensitivity of C4): the upper bounds are exclusive.
OutOfRangeStrict(m) ==
    \/ m.cpu_usage < Tenths(0) \/ m.cpu_usage >= Tenths(100)
    \/ m.ram_usage < Tenths(0) \/ m.ram_usage >= Tenths(100)
    \/ m.temperature < Tenths(0) \/ m.temperature >= Tenths(150)

\* "Validate ranges for required fields": TRUE when the message is rejected
OutOfRange(m) ==
    \/ m.cpu_usage < Tenths(0) \/ m.cpu_usage > Tenths(100)
    \/ m.ram_usage < Tenths(0) \/ m.ram_usage > Tenths(100)
    \/ m.temperature < Tenths(0) \/ m.temperature > Tenths(150)

\* parseMessage on the global record m: what it returns, the error it
\* prints, and the record it leaves behind
parseMessage(m, message) ==
    IF ~validateChecksum(message)
    THEN [ret |-> FALSE, err |-> "Error: Invalid checksum", m |-> m]
    ELSE
    LET cpu == ParseCPU(ResetOptional(m), message) IN
    IF ~cpu.found
    THEN [ret |-> FALSE, err |-> "Error: CPU field missing", m |-> cpu.m]
    ELSE
    LET ram == ParseRAM(cpu.m, message) IN
    IF ~ram.found
    THEN [ret |-> FALSE, err |-> "Error: RAM field missing", m |-> ram.m]
    ELSE
    LET temp == ParseTEMP(ram.m, message) IN
    IF ~temp.found
    THEN [ret |-> FALSE, err |-> "Error: TEMP field missing", m |-> temp.m]
    ELSE
    LET all == ParseOptional(temp.m, message) IN
    IF OutOfRange(all)
    THEN [ret |-> FALSE, err |-> "Error: Values out of range", m |-> all]
    ELSE [ret |-> TRUE, err |-> "", m |-> all]

---------------------------------------------------------------------------
(* The serial line reader.                                                 *)

bufferIndex == Len(serialBuffer)

IsTerminator(c) == c = "\n" \/ c = "\r"

\* Faulty variant (sensitivity of C22): the byte that finds the buffer full
\* starts the next line.
StoreRunKeepsByte(buf, run) ==
    LET k == Len(run)
        room == (SERIAL_BUFFER_SIZE - 1) - Len(buf)
        first == room + 1
        more == (k - first) \div (SERIAL_BUFFER_SIZE - 1)
        last == first + (SERIAL_BUFFER_SIZE - 1) * more
    IN  IF k <= room
        THEN [buf |-> buf \o run, over |-> 0]
        ELSE [buf |-> SubSeq(run, last, k), over |-> more + 1]

\* Faulty variant (sensitivity of C27): a byte is stored while bufferIndex <
\* SERIAL_BUFFER_SIZE.
StoreRunNoRoom(buf, run) ==
    LET k == Len(run)
        room == SERIAL_BUFFER_SIZE - Len(buf)
        first == room + 1
        more == (k - first) \div (SERIAL_BUFFER_SIZE + 1)
        last == first + (SERIAL_BUFFER_SIZE + 1) * more
    IN  IF k <= room
        THEN [buf |-> buf \o run, over |-> 0]
        ELSE [buf |-> SubSeq(run, last + 1, k), over |-> more + 1]

\* Faulty variant (sensitivity of C28): after an overflow the bytes up to the
\* next terminator are skipped.
StoreRunSkipsTail(buf, run) ==
    IF Len(run) <= (SERIAL_BUFFER_SIZE - 1) - Len(buf)
    THEN [buf |-> buf \o run, over |-> 0]
    ELSE [buf |-> "", over |-> 1]

\* The buffer after the loop has read the bytes of run, none of them a
\* terminator, starting from buf: a byte is stored while bufferIndex <
\* SERIAL_BUFFER_SIZE - 1; the next byte is dropped and empties the buffer,
\* and so again every SERIAL_BUFFER_SIZE bytes.  over counts the passes
\* through the overflow branch.
StoreRun(buf, run) ==
    LET k == Len(run)
        room == (SERIAL_BUFFER_SIZE - 1) - Len(buf)
        first == room + 1
        more == (k - first) \div SERIAL_BUFFER_SIZE
        last == first + SERIAL_BUFFER_SIZE * more
    IN  IF k <= room
        THEN [buf |-> buf \o run, over |-> 0]
        ELSE [buf |-> SubSeq(run, last + 1, k), over |-> more + 1]

\* Faulty variant (sensitivity of C11): an accepted message marks the link
\* connected but leaves the time stamp alone.
ParsedNoStamp(st, t, r) ==
    [metrics |-> IF r.ret THEN [r.m EXCEPT !.connected = TRUE] ELSE r.m,
     buf |-> "",
     lastLine |-> st.buf,
     lastRet |-> r.ret,
     lastErr |-> r.err,
     pre |-> st.metrics,
     over |-> st.over,
     decoded |-> Append(st.decoded, st.buf)]

\* Faulty variant (sensitivity of C12): every parsed line stamps the link.
ParsedAlwaysStamp(st, t, r) ==
    [metrics |-> [r.m EXCEPT !.last_update = t, !.connected = TRUE],
     buf |-> "",
     lastLine |-> st.buf,
     lastRet |-> r.ret,
     lastErr |-> r.err,
     pre |-> st.metrics,
     over |-> st.over,
     decoded |-> Append(st.decoded, st.buf)]

\* Faulty variant (sensitivity of C19): an accepted message clears the
\* power-save flag itself.
ParsedExitsPowerSave(st, t, r) ==
    [metrics |-> IF r.ret
                 THEN [r.m EXCEPT !.last_update = t, !.connected = TRUE,
                                  !.power_save_mode = FALSE]
                 ELSE r.m,
     buf |-> "",
     lastLine |-> st.buf,
     lastRet |-> r.ret,
     lastErr |-> r.err,
     pre |-> st.metrics,
     over |-> st.over,
     decoded |-> Append(st.decoded, st.buf)]

\* Faulty variant (sensitivity of C25): the buffer is not emptied after a
\* line has been parsed.
ParsedKeepsBuffer(st, t, r) ==
    [metrics |-> IF r.ret
                 THEN [r.m EXCEPT !.last_update = t, !.connected = TRUE]
                 ELSE r.m,
     buf |-> st.buf,
     lastLine |-> st.buf,
     lastRet |-> r.ret,
     lastErr |-> r.err,
     pre |-> st.metrics,
     over |-> st.over,
     decoded |-> Append(st.decoded, st.buf)]

\* parseMessage has returned r with millis() = t: an accepted message
\* stamps the link, and the buffer is emptied
Parsed(st, t, r) ==
    [metrics |-> IF r.ret
                 THEN [r.m EXCEPT !.last_update = t, !.connected = TRUE]
                 ELSE r.m,
     buf |-> "",
     lastLine |-> st.buf,
     lastRet |-> r.ret,
     lastErr |-> r.err,
     pre |-> st.metrics,
     over |-> st.over,
     decoded |-> Append(st.decoded, st.buf)]

\* Faulty variant (sensitivity of C21): a terminator has the buffer parsed
\* when it is empty, too.
EndOfLineUnguarded(st, t) == Parsed(st, t, parseMessage(st.metrics, st.buf))

\* A terminator byte is read with millis() = t: a non-empty buffer is parsed
EndOfLine(st, t) ==
    IF Len(st.buf) > 0 THEN Parsed(st, t, parseMessage(st.metrics, st.buf)) ELSE st

\* the position of the first terminator of bytes at or after i, or
\* Len(bytes) + 1 when there is none
NextTerminator(bytes, i) ==
    LET at == {j \in i..Len(bytes) : IsTerminator(CharAt(bytes, j))}
    IN  IF at = {} THEN Len(bytes) + 1 ELSE CHOOSE j \in at : \A k \in at : j <= k

\* the while loop of processSerialData on bytes[i ..]: the bytes up to the
\* next terminator are stored, the terminator ends the line, and so on
RECURSIVE ReadBytes(_, _, _, _)
ReadBytes(st, bytes, i, t) ==
    IF i > Len(bytes) THEN st
    ELSE LET j == NextTerminator(bytes, i)
             run == StoreRun(st.buf, SubSeq(bytes, i, j - 1))
             stored == [st EXCEPT !.buf = run.buf, !.over = @ + run.over]
         IN  IF j > Len(bytes) THEN stored
             ELSE ReadBytes(EndOfLine(stored, t), bytes, j + 1, t)

\* Faulty variant (sensitivity of C23): each call starts with an empty buffer.
processSerialDataFresh(bytes) ==
    \E st \in {ReadBytes([metrics |-> metrics, buf |-> "",
                          lastLine |-> lastLine, lastRet |-> lastRet,
                          lastErr |-> lastErr, pre |-> pre, over |-> 0,
                          decoded |-> <<>>],
                         bytes, 1, now)} :
        /\ metrics' = st.metrics
        /\ serialBuffer' = st.buf
        /\ lastLine' = st.lastLine
        /\ lastRet' = st.lastRet
        /\ lastErr' = st.lastErr
        /\ pre' = st.pre
        /\ overflows' = st.over
        /\ decoded' = st.decoded

\* processSerialData when Serial holds bytes: all of them are consumed
processSerialData(bytes) ==
    \E st \in {ReadBytes([metrics |-> metrics, buf |-> serialBuffer,
                          lastLine |-> lastLine, lastRet |-> lastRet,
                          lastErr |-> lastErr, pre |-> pre, over |-> 0,
                          decoded |-> <<>>],
                         bytes, 1, now)} :
        /\ metrics' = st.metrics
        /\ serialBuffer' = st.buf
        /\ lastLine' = st.lastLine
        /\ lastRet' = st.lastRet
        /\ lastErr' = st.lastErr
        /\ pre' = st.pre
        /\ overflows' = st.over
        /\ decoded' = st.decoded

---------------------------------------------------------------------------
(* Liveness, power saving and display, as loop() calls them.               *)

\* unsigned long has 32 bits on this target.  A value u is held as the integer
\* congruent to u modulo 2^32 in -2^31 .. 2^31 - 1: u itself below 2^31 and
\* u - 2^32 from there on, so that 2^32 - 1 is held as -1 and the counter
\* wraps where the integer passes from -1 to 0.  Sums and differences are
\* taken on the 16-bit halves.
HalfWord == 65536

\* the upper and the lower half of the value x stands for
High(x) == (x \div HalfWord) % HalfWord
Low(x) == x % HalfWord

\* the integer that stands for the value with halves hi and lo
Word(hi, lo) ==
    (IF hi >= HalfWord \div 2 THEN hi - HalfWord ELSE hi) * HalfWord + lo

\* x < y and x > y between unsigned long values
Below32(x, y) == IF (x < 0) = (y < 0) THEN x < y ELSE y < 0
Above32(x, y) == Below32(y, x)

\* Faulty variant (sensitivity of C31): the difference is taken in an
\* unsigned type wider than the counter, where a stamp from before the wrap
\* is above the reading taken after it and the difference is beyond every
\* limit.
Sub32Wide(a, b) ==
    IF Below32(a, b) THEN -1
    ELSE Word((High(a) - High(b) - (IF Low(a) < Low(b) THEN 1 ELSE 0)) % HalfWord,
              (Low(a) - Low(b)) % HalfWord)

\* a - b in unsigned long, that is modulo 2^32
Sub32(a, b) ==
    Word((High(a) - High(b) - (IF Low(a) < Low(b) THEN 1 ELSE 0)) % HalfWord,
         (Low(a) - Low(b)) % HalfWord)

\* Faulty variant (sensitivity of C13): the link times out at the limit.
checkConnectionStatusAtLimit(m, t) ==
    IF m.connected /\ ~Below32(Sub32(t, m.last_update), DATA_TIMEOUT_MS)
    THEN [m EXCEPT !.connected = FALSE, !.disconnect_time = t]
    ELSE m

\* Faulty variant (sensitivity of C14): the check does not ask whether the
\* link is connected.
checkConnectionStatusUnguarded(m, t) ==
    IF Above32(Sub32(t, m.last_update), DATA_TIMEOUT_MS)
    THEN [m EXCEPT !.connected = FALSE, !.disconnect_time = t]
    ELSE m

\* Faulty variant (sensitivity of C24): the time of the disconnect is
\* recorded but the link is not marked disconnected.
checkConnectionStatusNoFlag(m, t) ==
    IF m.connected /\ Above32(Sub32(t, m.last_update), DATA_TIMEOUT_MS)
    THEN [m EXCEPT !.disconnect_time = t]
    ELSE m

\* checkConnectionStatus with millis() = t
checkConnectionStatus(m, t) ==
    IF m.connected /\ Above32(Sub32(t, m.last_update), DATA_TIMEOUT_MS)
    THEN [m EXCEPT !.connected = FALSE, !.disconnect_time = t]
    ELSE m

\* Faulty variant (sensitivity of C15): power save is entered at the delay.
EnteringAtDelay(m, t) ==
    /\ ~m.connected
    /\ ~Below32(Sub32(t, m.disconnect_time), POWER_SAVE_DELAY_MS)
    /\ ~m.power_save_mode

\* Faulty variant (sensitivity of C17): the link state is not asked.
EnteringAnyLink(m, t) ==
    /\ Above32(Sub32(t, m.disconnect_time), POWER_SAVE_DELAY_MS)
    /\ ~m.power_save_mode

\* Faulty variant (sensitivity of C29): power save needs a recorded
\* disconnect.
EnteringAfterDisconnect(m, t) ==
    /\ ~m.connected
    /\ m.disconnect_time > 0
    /\ Above32(Sub32(t, m.disconnect_time), POWER_SAVE_DELAY_MS)
    /\ ~m.power_save_mode

\* managePowerSaving with millis() = t: TRUE when enterPowerSaveMode acts
Entering(m, t) ==
    /\ ~m.connected
    /\ Above32(Sub32(t, m.disconnect_time), POWER_SAVE_DELAY_MS)
    /\ ~m.power_save_mode

\* managePowerSaving: TRUE when exitPowerSaveMode acts
Exiting(m) == m.connected /\ m.power_save_mode

\* the fields updateDisplay passes to the ui_update_* calls
Shown(m) ==
    [cpu |-> <<m.cpu_usage, m.cpu_freq_ghz>>,
     gpu |-> <<m.gpu_usage>>,
     ram |-> <<m.ram_usage, m.ram_used_gb, m.ram_total_gb>>,
     temp |-> <<m.temperature, m.fan_rpm>>,
     network |-> <<m.net_download_mbps, m.net_upload_mbps>>,
     battery |-> <<m.battery_percent, m.power_watts>>]

\* a request to a collaborator: Set_Backlight(arg), setCpuFrequencyMhz(arg)
Request(fn, arg) == [fn |-> fn, arg |-> arg]

\* Faulty variant (sensitivity of C18): no early return when already active.
enterPowerSaveModeUnguarded(p) ==
    [metrics |-> [p.metrics EXCEPT !.power_save_mode = TRUE],
     backlight |-> POWER_SAVE_BACKLIGHT,
     cpuMhz |-> 80,
     calls |-> p.calls \o <<Request("Set_Backlight", POWER_SAVE_BACKLIGHT),
                            Request("setCpuFrequencyMhz", 80)>>]

\* enterPowerSaveMode on p = [metrics, backlight, cpuMhz, calls]
enterPowerSaveMode(p) ==
    IF p.metrics.power_save_mode THEN p
    ELSE [metrics |-> [p.metrics EXCEPT !.power_save_mode = TRUE],
          backlight |-> POWER_SAVE_BACKLIGHT,
          cpuMhz |-> 80,
          calls |-> p.calls \o <<Request("Set_Backlight", POWER_SAVE_BACKLIGHT),
                                 Request("setCpuFrequencyMhz", 80)>>]

\* Faulty variant (sensitivity of C16): the CPU frequency is not restored.
exitPowerSaveModeBacklightOnly(p) ==
    IF ~p.metrics.power_save_mode THEN p
    ELSE [metrics |-> [p.metrics EXCEPT !.power_save_mode = FALSE],
          backlight |-> NORMAL_BACKLIGHT,
          cpuMhz |-> p.cpuMhz,
          calls |-> p.calls \o <<Request("Set_Backlight", NORMAL_BACKLIGHT)>>]

\* exitPowerSaveMode on p = [metrics, backlight, cpuMhz, calls]
exitPowerSaveMode(p) ==
    IF ~p.metrics.power_save_mode THEN p
    ELSE [metrics |-> [p.metrics EXCEPT !.power_save_mode = FALSE],
          backlight |-> NORMAL_BACKLIGHT,
          cpuMhz |-> 160,
          calls |-> p.calls \o <<Request("Set_Backlight", NORMAL_BACKLIGHT),
                                 Request("setCpuFrequencyMhz", 160)>>]

\* managePowerSaving with millis() = t
managePowerSaving(p, t) ==
    IF Entering(p.metrics, t) THEN enterPowerSaveMode(p)
    ELSE IF Exiting(p.metrics) THEN exitPowerSaveMode(p)
    ELSE p

\* "Update display every 500ms"
DISPLAY_INTERVAL_MS == 500

\* Faulty variant (sensitivity of C20): the interval is a millisecond short.
updateDisplayEarly(d, m, t) ==
    IF Below32(Sub32(t, d.lastUpdate), DISPLAY_INTERVAL_MS - 1) THEN d
    ELSE [lastUpdate |-> t,
          ui |-> Shown(m),
          prevUpdate |-> IF d.ui = <<>> THEN -1 ELSE d.lastUpdate]

\* updateDisplay on d = [lastUpdate, ui, prevUpdate] with millis() = t
updateDisplay(d, m, t) ==
    IF Below32(Sub32(t, d.lastUpdate), DISPLAY_INTERVAL_MS) THEN d
    ELSE [lastUpdate |-> t,
          ui |-> Shown(m),
          prevUpdate |-> IF d.ui = <<>> THEN -1 ELSE d.lastUpdate]

\* the argument of the delay() that ends an iteration of loop()
DelayMs(m) == IF m.power_save_mode THEN 100 ELSE 5

---------------------------------------------------------------------------
(* The host side: a message is a sequence of KEY:VALUE tokens, written out *)
(* as one comma-separated line.  vals are the numbers the token's text     *)
(* writes, in the unit of the field they are meant for.                    *)

DigitChar(d) == SubSeq("0123456789", d + 1, d + 1)

RECURSIVE FormatNat(_)
FormatNat(n) == IF n < 10 THEN DigitChar(n) ELSE FormatNat(n \div 10) \o DigitChar(n % 10)

FormatInt(n) == IF n < 0 THEN "-" \o FormatNat(0 - n) ELSE FormatNat(n)

\* a value held in tenths, written with one decimal
FormatTenths(v) ==
    LET a == IF v < 0 THEN 0 - v ELSE v
    IN  (IF v < 0 THEN "-" ELSE "") \o FormatNat(a \div 10) \o "." \o DigitChar(a % 10)

F(k, v) == [key |-> k, text |-> FormatTenths(v), vals |-> <<v>>]
W(k, u) == [key |-> k, text |-> FormatInt(u), vals |-> <<Tenths(u)>>]
N(k, n) == [key |-> k, text |-> FormatInt(n), vals |-> <<n>>]
P(k, a, sep, b) ==
    [key |-> k, text |-> FormatTenths(a) \o sep \o FormatTenths(b), vals |-> <<a, b>>]
Bad(k, t) == [key |-> k, text |-> t, vals |-> <<>>]

RECURSIVE Render(_)
Render(m) ==
    IF m = <<>> THEN ""
    ELSE m[1].key \o ":" \o m[1].text
         \o (IF Len(m) > 1 THEN "," \o Render(Tail(m)) ELSE "")

Required == <<F("CPU", 452), F("RAM", 678), F("TEMP", 585)>>
Optional ==
    <<F("FREQ", 38), W("GPU", 40), P("RAMGB", 119, "/", 313), N("FAN", 1500),
      P("NET", 1255, ",", 152), N("BAT", 85), F("POWER", 100)>>
ValidMsgs ==
    { Required \o <<N("CHK", 171)>>,
      Required \o <<N("FAN", 1500), N("CHK", 171)>>,
      Required \o Optional \o <<N("CHK", 171)>>,
      <<W("CPU", 0), W("RAM", 100), W("TEMP", 150), N("CHK", 0)>>,
      <<W("CPU", 100), W("RAM", 0), W("TEMP", 0), N("BAT", 50), N("CHK", 0)>> }

MissingFieldMsgs ==
    { <<F("RAM", 300), F("TEMP", 400), W("GPU", 55), N("CHK", 5)>>,
      <<F("CPU", 125), F("TEMP", 400), P("RAMGB", 119, "/", 313), N("FAN", 900),
        N("CHK", 5)>>,
      <<F("CPU", 125), F("RAM", 300), N("CHK", 5)>> }

OutOfRangeMsgs ==
    { <<F("CPU", 1001), F("RAM", 300), F("TEMP", 400), N("BAT", 50), N("CHK", 5)>>,
      <<F("CPU", -1), F("RAM", 300), F("TEMP", 400), N("CHK", 5)>>,
      <<F("CPU", 125), F("RAM", 1001), F("TEMP", 400), N("CHK", 5)>>,
      <<F("CPU", 125), F("RAM", -1), F("TEMP", 400), N("CHK", 5)>>,
      <<F("CPU", 125), F("RAM", 300), F("TEMP", 1501), N("CHK", 5)>>,
      <<F("CPU", 125), F("RAM", 300), F("TEMP", -1), N("CHK", 5)>> }

NoChecksumMsgs ==
    { Required,
      <<F("CPU", 125), F("RAM", 300), F("TEMP", 400), N("FAN", 900)>> }

\* the CHK token at the head of the line, where no comma precedes it
ChecksumFirstMsgs ==
    { <<N("CHK", 171)>> \o Required,
      <<N("CHK", 5), F("RAM", 300), F("TEMP", 400)>>,
      <<N("CHK", 5), F("CPU", 1001), F("RAM", 300), F("TEMP", 400)>> }

MalformedMsgs ==
    { Required \o <<Bad("BAT", "x"), N("CHK", 1)>>,
      Required \o <<Bad("FREQ", "x"), Bad("GPU", ""), Bad("RAMGB", "x/1.0"),
                    Bad("FAN", "x"), Bad("NET", "x,1.0"), Bad("POWER", "-"),
                    N("CHK", 1)>> }

\* a required key with a value atof converts nothing from
UnparseableMsgs ==
    { <<Bad("CPU", "abc"), F("RAM", 678), F("TEMP", 585), N("CHK", 1)>>,
      <<F("CPU", 452), Bad("RAM", ""), F("TEMP", 585), N("CHK", 1)>>,
      <<F("CPU", 452), F("RAM", 678), Bad("TEMP", "-"), N("FAN", 900), N("CHK", 1)>>,
      <<Bad("TEMP", "n/a"), Bad("RAM", "?"), Bad("CPU", "x"), N("CHK", 1)>> }

DecodeMsgs ==
    ValidMsgs \cup MissingFieldMsgs \cup OutOfRangeMsgs \cup NoChecksumMsgs
    \cup ChecksumFirstMsgs \cup MalformedMsgs \cup UnparseableMsgs

---------------------------------------------------------------------------
(* The state machine.                                                      *)

MaxDecodeNow == 1

\* Faulty variant (sensitivity of C26): the battery level starts at 0.
InitMetricsBatteryZero ==
    [cpu_usage |-> 0, ram_usage |-> 0, temperature |-> 0,
     cpu_freq_ghz |-> 0, gpu_usage |-> 0,
     ram_used_gb |-> 0, ram_total_gb |-> 0,
     fan_rpm |-> 0, net_download_mbps |-> 0, net_upload_mbps |-> 0,
     battery_percent |-> 0, power_watts |-> 0,
     last_update |-> 0, connected |-> FALSE,
     power_save_mode |-> FALSE, disconnect_time |-> 0]

InitMetrics ==
    [cpu_usage |-> 0, ram_usage |-> 0, temperature |-> 0,
     cpu_freq_ghz |-> 0, gpu_usage |-> 0,
     ram_used_gb |-> 0, ram_total_gb |-> 0,
     fan_rpm |-> 0, net_download_mbps |-> 0, net_upload_mbps |-> 0,
     battery_percent |-> -1, power_watts |-> 0,
     last_update |-> 0, connected |-> FALSE,
     power_save_mode |-> FALSE, disconnect_time |-> 0]

\* the state setup() leaves
Boot ==
    /\ metrics = InitMetrics
    /\ serialBuffer = ""
    /\ now = 0
    /\ pc = "processSerialData"
    /\ lastUpdate = 0
    /\ backlight = 5
    /\ cpuMhz = 160
    /\ ui = <<>>
    /\ lastLine = ""
    /\ lastRet = FALSE
    /\ lastErr = ""
    /\ pre = InitMetrics
    /\ msg = <<>>
    /\ again = FALSE
    /\ prevRet = FALSE
    /\ overflows = 0
    /\ calls = <<>>
    /\ prevUpdate = -1
    /\ decoded = <<>>
    /\ sent = ""
    /\ lines = <<>>
    /\ reports = 0

Init == Boot /\ stream = ""

\* the host's message m arrives whole, with its newline, and is read
DecodeMsg(m) ==
    /\ processSerialData(Render(m) \o "\n")
    /\ msg' = m
    /\ again' = (m = msg)
    /\ prevRet' = lastRet
    /\ UNCHANGED <<now, pc, lastUpdate, backlight, cpuMhz, ui, calls, prevUpdate>>
    /\ UNCHANGED host

\* the millisecond clock advances
Tick ==
    /\ now < MaxDecodeNow
    /\ now' = now + 1
    /\ UNCHANGED <<metrics, serialBuffer, pc, lastUpdate, backlight, cpuMhz, ui,
                   lastLine, lastRet, lastErr, pre, msg, again, prevRet,
                   overflows, calls, prevUpdate, decoded>>
    /\ UNCHANGED host

NextDecode == (\E m \in DecodeMsgs : DecodeMsg(m)) \/ Tick

SpecDecode == Init /\ [][NextDecode]_vars

---------------------------------------------------------------------------
(* The whole loop().  One iteration runs its stages in order and reads one *)
(* value of millis(); the clock moves on during Timer_Loop() and delay(),  *)
(* by the delay at least.  The readings explored are the instants around   *)
(* which the timers of the program decide.                                 *)

MaxNow == 30003

Instants ==
    LET T == DATA_TIMEOUT_MS
        D == POWER_SAVE_DELAY_MS
        R == DISPLAY_INTERVAL_MS
    IN  { t \in {0, R - 1, R, 2 * R - 1, T, T + 1, D, D + 1, T + D + 1, T + D + 2,
                 2 * T + D + 1, 2 * T + D + 2, 2 * T + 2 * D + 2, 2 * T + 2 * D + 3} :
          t <= MaxNow }

\* a line longer than the buffer: SERIAL_BUFFER_SIZE filler bytes, then text
RECURSIVE Filler(_)
Filler(n) ==
    IF n = 0 THEN ""
    ELSE IF n % 2 = 1 THEN "#" \o Filler(n - 1)
    ELSE LET half == Filler(n \div 2) IN half \o half

Pads == {"", Filler(SERIAL_BUFFER_SIZE)}

AcceptedMsg == Required \o <<N("FAN", 1500), N("CHK", 171)>>
RejectedMsg == <<F("CPU", 125), F("TEMP", 400), N("FAN", 900), N("CHK", 5)>>
NoChecksumMsg == <<F("CPU", 125), F("RAM", 300), F("TEMP", 400)>>
LoopMsgs == {AcceptedMsg, RejectedMsg, NoChecksumMsg}

\* processSerialData when Serial.available() is 0
SerialIdle ==
    /\ pc = "processSerialData"
    /\ pc' = "checkConnectionStatus"
    /\ lastLine' = "" /\ lastRet' = FALSE /\ lastErr' = "" /\ pre' = metrics
    /\ msg' = <<>> /\ again' = FALSE /\ prevRet' = FALSE /\ overflows' = 0
    /\ calls' = <<>> /\ decoded' = <<>>
    /\ UNCHANGED <<metrics, serialBuffer, now, lastUpdate, backlight, cpuMhz, ui,
                   prevUpdate>>
    /\ UNCHANGED host

\* processSerialData when Serial holds the line of m after the filler pad
SerialLine(pad, m) ==
    /\ pc = "processSerialData"
    /\ pc' = "checkConnectionStatus"
    /\ processSerialData(pad \o Render(m) \o "\n")
    /\ msg' = m /\ again' = FALSE /\ prevRet' = FALSE
    /\ calls' = <<>>
    /\ UNCHANGED <<now, lastUpdate, backlight, cpuMhz, ui, prevUpdate>>
    /\ UNCHANGED host

CheckConnection ==
    /\ pc = "checkConnectionStatus"
    /\ pc' = "managePowerSaving"
    /\ metrics' = checkConnectionStatus(metrics, now)
    /\ calls' = <<>>
    /\ UNCHANGED <<serialBuffer, now, lastUpdate, backlight, cpuMhz, ui,
                   lastLine, lastRet, lastErr, pre, msg, again, prevRet,
                   overflows, prevUpdate, decoded>>
    /\ UNCHANGED host

ManagePower ==
    /\ pc = "managePowerSaving"
    /\ pc' = "updateDisplay"
    /\ \E p \in {managePowerSaving([metrics |-> metrics, backlight |-> backlight,
                                    cpuMhz |-> cpuMhz, calls |-> <<>>], now)} :
          /\ metrics' = p.metrics
          /\ backlight' = p.backlight
          /\ cpuMhz' = p.cpuMhz
          /\ calls' = p.calls
    /\ UNCHANGED <<serialBuffer, now, lastUpdate, ui,
                   lastLine, lastRet, lastErr, pre, msg, again, prevRet,
                   overflows, prevUpdate, decoded>>
    /\ UNCHANGED host

UpdateDisplay ==
    /\ pc = "updateDisplay"
    /\ pc' = "delay"
    /\ \E d \in {updateDisplay([lastUpdate |-> lastUpdate, ui |-> ui,
                                prevUpdate |-> prevUpdate], metrics, now)} :
          /\ lastUpdate' = d.lastUpdate
          /\ ui' = d.ui
          /\ prevUpdate' = d.prevUpdate
    /\ calls' = <<>>
    /\ UNCHANGED <<metrics, serialBuffer, now, backlight, cpuMhz,
                   lastLine, lastRet, lastErr, pre, msg, again, prevRet, overflows,
                   decoded>>
    /\ UNCHANGED host

\* Timer_Loop() and delay(): the next iteration reads a later clock
Delay ==
    /\ pc = "delay"
    /\ pc' = "processSerialData"
    /\ \E t \in Instants : t >= now + DelayMs(metrics) /\ now' = t
    /\ calls' = <<>>
    /\ UNCHANGED <<metrics, serialBuffer, lastUpdate, backlight, cpuMhz, ui,
                   lastLine, lastRet, lastErr, pre, msg, again, prevRet,
                   overflows, prevUpdate, decoded>>
    /\ UNCHANGED host

Next ==
    \/ SerialIdle
    \/ \E pad \in Pads, m \in LoopMsgs : SerialLine(pad, m)
    \/ CheckConnection
    \/ ManagePower
    \/ UpdateDisplay
    \/ Delay

Spec == Init /\ [][Next]_vars

\* The loop with no input, an accepted line, or an overlong line with a
\* rejected tail in each iteration.
NextLive ==
    \/ SerialIdle
    \/ SerialLine("", AcceptedMsg)
    \/ SerialLine(Filler(SERIAL_BUFFER_SIZE), RejectedMsg)
    \/ CheckConnection
    \/ ManagePower
    \/ UpdateDisplay
    \/ Delay

\* loop() is called again and again and each of its stages returns
SpecLive == Init /\ [][NextLive]_vars /\ WF_vars(NextLive)

---------------------------------------------------------------------------
(* The loop around the wrap of millis().  The device has been idle since   *)
(* boot, in power save, and the counter is about to pass from 2^32 - 1 to  *)
(* 0.  The readings explored lie before and after the wrap, at the         *)
(* distances at which the timers of the program decide.                    *)

\* the reading x ms before the wrap
BeforeWrap(x) == Sub32(0, x)

WrapInstants ==
    LET T == DATA_TIMEOUT_MS
        D == POWER_SAVE_DELAY_MS
        R == DISPLAY_INTERVAL_MS
    IN  {BeforeWrap(T + 200), BeforeWrap(T), BeforeWrap(1)}
        \cup {0, 1, R - 2, R - 1, T - 1, T, D - 1, D}

\* the state of a device that has read no line since boot, when loop() is
\* about to run 200 ms before the counter is DATA_TIMEOUT_MS short of the
\* wrap
InitWrap ==
    /\ metrics = [InitMetrics EXCEPT !.power_save_mode = TRUE]
    /\ serialBuffer = ""
    /\ now = BeforeWrap(DATA_TIMEOUT_MS + 200)
    /\ pc = "processSerialData"
    /\ lastUpdate = BeforeWrap(DATA_TIMEOUT_MS + 300)
    /\ backlight = POWER_SAVE_BACKLIGHT
    /\ cpuMhz = 80
    /\ ui = Shown(InitMetrics)
    /\ lastLine = ""
    /\ lastRet = FALSE
    /\ lastErr = ""
    /\ pre = InitMetrics
    /\ msg = <<>>
    /\ again = FALSE
    /\ prevRet = FALSE
    /\ overflows = 0
    /\ calls = <<>>
    /\ prevUpdate = BeforeWrap(DATA_TIMEOUT_MS + 800)
    /\ decoded = <<>>
    /\ stream = ""
    /\ sent = ""
    /\ lines = <<>>
    /\ reports = 0

\* Timer_Loop() and delay(): the counter moves on, modulo 2^32, by the delay
\* at least
DelayWrap ==
    /\ pc = "delay"
    /\ pc' = "processSerialData"
    /\ \E t \in WrapInstants :
          /\ ~Below32(Sub32(t, now), DelayMs(metrics))
          /\ Below32(Sub32(t, now), HalfWord)
          /\ now' = t
    /\ calls' = <<>>
    /\ UNCHANGED <<metrics, serialBuffer, lastUpdate, backlight, cpuMhz, ui,
                   lastLine, lastRet, lastErr, pre, msg, again, prevRet,
                   overflows, prevUpdate, decoded>>
    /\ UNCHANGED host

NextWrap ==
    \/ SerialIdle
    \/ SerialLine("", AcceptedMsg)
    \/ SerialLine("", RejectedMsg)
    \/ CheckConnection
    \/ ManagePower
    \/ UpdateDisplay
    \/ DelayWrap

SpecWrap == InitWrap /\ [][NextWrap]_vars

---------------------------------------------------------------------------
(* The reader under a byte stream.  The host has sent a stream of bytes;   *)
(* each iteration of loop() finds some of them available, one byte at the  *)
(* least, and processSerialData consumes what is available.  The other     *)
(* stages of the iteration and the delay run as one step, the clock moving *)
(* on by the delay.  A stream arrives byte by byte up to some point and    *)
(* the rest of it at once, which covers the whole stream in one call, one  *)
(* byte in each call, and every split of the stream in two.                *)

ValidLine == Render(AcceptedMsg)
RejectedLine == Render(RejectedMsg)

\* a valid line of n bytes, filled up by the value of a key the decoder
\* does not know
PaddedLine(n) ==
    LET head == Render(Required) \o ",PAD:"
        tail == ",CHK:1"
    IN  head \o Filler(n - Len(head) - Len(tail)) \o tail

\* the longest line the buffer holds, and a line one byte longer
FullLine == PaddedLine(SERIAL_BUFFER_SIZE - 1)
OverLine == PaddedLine(SERIAL_BUFFER_SIZE)

\* what the host may have sent before a last valid line: lines ended by
\* CR LF, empty lines, rejected lines, garbage, lines that fill the buffer
\* and lines that overflow it once or twice
Preambles ==
    {"",
     ValidLine \o "\r\n",
     "\n\r\n" \o RejectedLine \o "\r" \o "garbage" \o "\n",
     FullLine \o "\n",
     Filler(SERIAL_BUFFER_SIZE),
     ValidLine \o "\n" \o Filler(SERIAL_BUFFER_SIZE),
     OverLine \o "\n",
     Filler(2 * SERIAL_BUFFER_SIZE + 1) \o RejectedLine \o "\r\n"}

LastLines == {ValidLine, FullLine}

Streams == {pre0 \o line \o "\n" : pre0 \in Preambles, line \in LastLines}

\* the numbers of bytes Serial.available() may report for a stream of n bytes
Chunks(n) == {k \in {1, n} : 1 <= k /\ k <= n}

InitRead == Boot /\ stream \in Streams

\* processSerialData when the first k bytes of the stream are available
ReadChunk(k) ==
    /\ pc = "processSerialData"
    /\ pc' = "checkConnectionStatus"
    /\ processSerialData(SubSeq(stream, 1, k))
    /\ stream' = SubSeq(stream, k + 1, Len(stream))
    /\ sent' = sent \o SubSeq(stream, 1, k)
    /\ lines' = lines \o decoded'
    /\ reports' = reports + overflows'
    /\ calls' = <<>>
    /\ UNCHANGED <<now, lastUpdate, backlight, cpuMhz, ui, prevUpdate,
                   msg, again, prevRet>>

\* checkConnectionStatus, managePowerSaving, updateDisplay, Timer_Loop and
\* the delay of one iteration
RestOfLoop ==
    /\ pc = "checkConnectionStatus"
    /\ pc' = "processSerialData"
    /\ \E p \in {managePowerSaving([metrics |-> checkConnectionStatus(metrics, now),
                                    backlight |-> backlight,
                                    cpuMhz |-> cpuMhz, calls |-> <<>>], now)} :
          /\ metrics' = p.metrics
          /\ backlight' = p.backlight
          /\ cpuMhz' = p.cpuMhz
          /\ calls' = p.calls
          /\ now' = now + DelayMs(p.metrics)
          /\ \E d \in {updateDisplay([lastUpdate |-> lastUpdate, ui |-> ui,
                                      prevUpdate |-> prevUpdate], p.metrics, now)} :
                /\ lastUpdate' = d.lastUpdate
                /\ ui' = d.ui
                /\ prevUpdate' = d.prevUpdate
    /\ UNCHANGED <<serialBuffer, lastLine, lastRet, lastErr, pre, msg, again,
                   prevRet, overflows, decoded>>
    /\ UNCHANGED host

NextRead == (\E k \in Chunks(Len(stream)) : ReadChunk(k)) \/ RestOfLoop

SpecRead == InitRead /\ [][NextRead]_vars

---------------------------------------------------------------------------
(* What the claims speak of.                                               *)

RecordFields ==
    {"cpu_usage", "ram_usage", "temperature", "cpu_freq_ghz", "gpu_usage",
     "ram_used_gb", "ram_total_gb", "fan_rpm", "net_download_mbps",
     "net_upload_mbps", "battery_percent", "power_watts"}

\* the MetricsRecord part of the store
Rec(m) == [f \in RecordFields |-> m[f]]

\* the LinkState part of the store
Link(m) == <<m.last_update, m.connected, m.disconnect_time>>

RequiredKeys == {"CPU", "RAM", "TEMP"}
OptionalKeys == {"FREQ", "GPU", "RAMGB", "FAN", "NET", "BAT", "POWER"}

\* the fields a key is stored in, in the order of its values
FieldsOf(k) ==
    CASE k = "CPU" -> <<"cpu_usage">>
      [] k = "RAM" -> <<"ram_usage">>
      [] k = "TEMP" -> <<"temperature">>
      [] k = "FREQ" -> <<"cpu_freq_ghz">>
      [] k = "GPU" -> <<"gpu_usage">>
      [] k = "RAMGB" -> <<"ram_used_gb", "ram_total_gb">>
      [] k = "FAN" -> <<"fan_rpm">>
      [] k = "NET" -> <<"net_download_mbps", "net_upload_mbps">>
      [] k = "BAT" -> <<"battery_percent">>
      [] k = "POWER" -> <<"power_watts">>

\* the "unavailable" default of an optional field
DefaultOf(f) == IF f = "battery_percent" THEN -1 ELSE 0

HasKey(m, k) == \E i \in 1..Len(m) : m[i].key = k
Token(m, k) == m[CHOOSE i \in 1..Len(m) : m[i].key = k]

\* the fields of key k hold the numbers its token writes
StoredAsSent(rec, m, k) ==
    \A i \in 1..Len(FieldsOf(k)) : rec[FieldsOf(k)[i]] = Token(m, k).vals[i]

\* the fields of key k hold their defaults
AtDefault(rec, k) ==
    \A i \in 1..Len(FieldsOf(k)) : rec[FieldsOf(k)[i]] = DefaultOf(FieldsOf(k)[i])

\* key k is in the message with a value that writes a number
Numeric(m, k) == HasKey(m, k) /\ Token(m, k).vals # <<>>
\* key k is in the message with a value that writes no number
Malformed(m, k) == HasKey(m, k) /\ Token(m, k).vals = <<>>

UpperBound(k) == IF k = "TEMP" THEN Tenths(150) ELSE Tenths(100)
InRange(m, k) ==
    /\ Numeric(m, k)
    /\ Token(m, k).vals[1] >= 0
    /\ Token(m, k).vals[1] <= UpperBound(k)

\* the line has a CHK token / has one that is not its first token
HasChecksum(m) == HasKey(m, "CHK")
ChecksumAfterFirst(m) == \E i \in 2..Len(m) : m[i].key = "CHK"

\* parseMessage has been called, on the line of msg
Decoded == msg # <<>> /\ lastLine = Render(msg)

MissingError(k) == "Error: " \o k \o " field missing"

---------------------------------------------------------------------------
(* The claims.                                                             *)

\* the message is accepted, the required fields and every optional field
\* with a numeric token hold the numbers sent, and every optional field
\* whose key is absent holds its default
AcceptedAsSent ==
    /\ lastRet
    /\ \A k \in RequiredKeys : StoredAsSent(metrics, msg, k)
    /\ \A k \in OptionalKeys :
          /\ Numeric(msg, k) => StoredAsSent(metrics, msg, k)
          /\ ~HasKey(msg, k) => AtDefault(metrics, k)

\* exactly the required key k is missing from m
OnlyMissing(m, k) == ~HasKey(m, k) /\ \A j \in RequiredKeys \ {k} : HasKey(m, j)

\* C1: a rejected decode performs no partial update: every field of the
\* MetricsRecord has the value it had before the attempt.
C1_RejectedLeavesRecord == (Decoded /\ ~lastRet) => Rec(metrics) = Rec(pre)

\* C2 as stated: every line that contains a checksum token and CPU, RAM, TEMP
\* in range is accepted, stored as sent, absent optional fields at default.
C2_AnyChecksumAccepted ==
    (Decoded /\ HasChecksum(msg) /\ \A k \in RequiredKeys : InRange(msg, k))
        => AcceptedAsSent

\* C2, amended: the same, for every line whose checksum token is not the first
\* token of the line (validateChecksum looks for ",CHK:").
C2_AcceptedAsSent ==
    (Decoded /\ ChecksumAfterFirst(msg) /\ \A k \in RequiredKeys : InRange(msg, k))
        => AcceptedAsSent

\* C2 witness: an accepted message with FAN and without BAT, decoded when the
\* store held a battery value.
C2_Witness ==
    /\ Decoded /\ ChecksumAfterFirst(msg) /\ \A k \in RequiredKeys : InRange(msg, k)
    /\ Numeric(msg, "FAN") /\ ~HasKey(msg, "BAT") /\ pre.battery_percent = 85

\* C3 as stated: a line with a checksum token that lacks exactly one required
\* key is rejected with the missing-field error of that key.
C3_AnyChecksumMissingField ==
    \A k \in RequiredKeys :
        (Decoded /\ HasChecksum(msg) /\ OnlyMissing(msg, k))
            => (~lastRet /\ lastErr = MissingError(k))

\* C3, amended: the same, for every line whose checksum token is not the first
\* token of the line; whatever the store held before.
C3_MissingField ==
    \A k \in RequiredKeys :
        (Decoded /\ ChecksumAfterFirst(msg) /\ OnlyMissing(msg, k))
            => (~lastRet /\ lastErr = MissingError(k))

\* C3 witness: RAM is missing while RAMGB is present, and the store held
\* values of an earlier message.
C3_Witness ==
    /\ Decoded /\ ChecksumAfterFirst(msg) /\ OnlyMissing(msg, "RAM")
    /\ HasKey(msg, "RAMGB") /\ pre.connected /\ lastErr = MissingError("RAM")

\* the three required keys are present with numeric values
AllRequiredNumeric(m) == \A k \in RequiredKeys : Numeric(m, k)

\* rejected as out of range when a required value is outside its closed
\* interval, accepted otherwise (0, 100 and 150 included)
RangeDecides ==
    IF \E k \in RequiredKeys : ~InRange(msg, k)
    THEN ~lastRet /\ lastErr = "Error: Values out of range"
    ELSE lastRet

\* C4 as stated: with a checksum token and all required keys present, the line
\* is rejected as out of range exactly when a required value is outside
\* [0,100] (cpu, ram) or [0,150] (temp), bounds included in the range.
C4_AnyChecksumOutOfRange ==
    (Decoded /\ HasChecksum(msg) /\ AllRequiredNumeric(msg)) => RangeDecides

\* C4, amended: the same, for every line whose checksum token is not the first
\* token of the line.
C4_OutOfRange ==
    (Decoded /\ ChecksumAfterFirst(msg) /\ AllRequiredNumeric(msg)) => RangeDecides

\* C4 witness: a temperature of 150.1 with cpu and ram in range is rejected.
C4_Witness ==
    /\ Decoded /\ ChecksumAfterFirst(msg) /\ AllRequiredNumeric(msg)
    /\ Token(msg, "TEMP").vals = <<1501>>
    /\ InRange(msg, "CPU") /\ InRange(msg, "RAM") /\ ~lastRet

\* C5: a line with no checksum token is rejected as lacking its checksum, and
\* no field of the store (MetricsRecord, LinkState) changes.
C5_NoChecksumTouchesNothing ==
    (Decoded /\ ~HasChecksum(msg))
        => (~lastRet /\ lastErr = "Error: Invalid checksum" /\ metrics = pre)

\* C5 witness: a line without CHK that carries FAN, read on a connected link
\* after the clock has moved on from the last update.
C5_Witness ==
    /\ Decoded /\ ~HasChecksum(msg) /\ Numeric(msg, "FAN")
    /\ pre.connected /\ now > pre.last_update /\ pre.fan_rpm = 1500

\* C6: after an accepted message every optional field whose key is absent
\* from it holds its default, whatever an earlier message stored.
C6_NoLeak ==
    (Decoded /\ lastRet)
        => \A k \in OptionalKeys : ~HasKey(msg, k) => AtDefault(metrics, k)

\* C6 witness: a message without BAT is accepted after a rejected message had
\* stored a battery value.
C6_Witness ==
    /\ Decoded /\ lastRet /\ ~prevRet
    /\ ~HasKey(msg, "BAT") /\ pre.battery_percent = 50

\* C7: a malformed optional value is treated as if the key were absent: the
\* message is accepted and the field holds its default, BAT included.
C7_MalformedAsAbsent ==
    (Decoded /\ ChecksumAfterFirst(msg) /\ \A k \in RequiredKeys : InRange(msg, k))
        => /\ lastRet
           /\ \A k \in OptionalKeys : Malformed(msg, k) => AtDefault(metrics, k)

\* C8: decoding the same valid line twice in a row gives the same accept
\* result and the same MetricsRecord the second time as the first.
C8_Idempotent == (Decoded /\ again /\ prevRet) => (lastRet /\ Rec(metrics) = Rec(pre))

\* C8 witness: an accepted message with optional values decoded twice.
C8_Witness == Decoded /\ again /\ prevRet /\ metrics.fan_rpm = 1500

\* the tokens before the trailing CHK token, reversed and rotated
Front(m) == SubSeq(m, 1, Len(m) - 1)
Reverse(m) == [i \in 1..Len(m) |-> m[Len(m) + 1 - i]]
Rotate(m) == IF m = <<>> THEN m ELSE Tail(m) \o <<Head(m)>>
Reorderings(m) ==
    { Reverse(Front(m)) \o <<m[Len(m)]>>, Rotate(Front(m)) \o <<m[Len(m)]>> }

TrailingChecksum(m) == Len(m) > 1 /\ m[Len(m)].key = "CHK"
DistinctKeys(m) == \A i, j \in 1..Len(m) : m[i].key = m[j].key => i = j

\* C9: a valid line of distinct keys with the CHK token last, and the same
\* tokens in another order, are both accepted and give the same MetricsRecord.
C9_OrderIndependent ==
    (Decoded /\ lastRet /\ TrailingChecksum(msg) /\ DistinctKeys(msg))
        => \A p \in Reorderings(msg) :
               LET r == parseMessage(pre, Render(p))
               IN  r.ret /\ Rec(r.m) = Rec(metrics)

\* C9 witness: the message with every optional key is accepted.
C9_Witness ==
    /\ Decoded /\ lastRet /\ TrailingChecksum(msg) /\ DistinctKeys(msg)
    /\ \A k \in OptionalKeys : Numeric(msg, k)

ChecksumValues == {0, 171, 999}
WithChecksum(m, c) ==
    [i \in 1..Len(m) |-> IF m[i].key = "CHK" THEN N("CHK", c) ELSE m[i]]

\* C10: a line that differs only in the number after CHK: gets the same
\* accept/reject outcome and leaves the same MetricsRecord.
C10_ChecksumValueIgnored ==
    (Decoded /\ HasChecksum(msg))
        => \A c \in ChecksumValues :
               LET r == parseMessage(pre, Render(WithChecksum(msg, c)))
               IN  r.ret = lastRet /\ r.err = lastErr /\ Rec(r.m) = Rec(metrics)

\* C10 witness: a message sent with CHK:171 is accepted.
C10_Witness ==
    Decoded /\ lastRet /\ HasChecksum(msg) /\ Token(msg, "CHK").vals = <<171>>

---------------------------------------------------------------------------
(* The claims about the loop.                                              *)

\* processSerialData of this iteration has just handled the line of msg
LineHandled == pc = "checkConnectionStatus" /\ msg # <<>>

\* C11: whenever parseMessage returns true inside processSerialData,
\* last_update is the current time and connected is true afterwards, from
\* either link state.
C11_AcceptedConnects ==
    (LineHandled /\ lastRet) => (metrics.connected /\ metrics.last_update = now)

\* C11 witness: a line is accepted on a link that had been disconnected at an
\* earlier time.
C11_Witness ==
    /\ LineHandled /\ lastRet /\ ~pre.connected
    /\ pre.disconnect_time > pre.last_update /\ now > pre.disconnect_time

\* C12 as stated: a rejected line and an overflowed line leave last_update,
\* connected and disconnect_time as they were.
C12_RejectedOrOverflowedKeepsLink ==
    (LineHandled /\ (~lastRet \/ overflows > 0)) => Link(metrics) = Link(pre)

\* C12, amended: a line whose decode is rejected, the tail of an overlong
\* line included, leaves last_update, connected and disconnect_time as they
\* were.
C12_RejectedKeepsLink == (LineHandled /\ ~lastRet) => Link(metrics) = Link(pre)

\* C12 witness: the rejected tail of an overlong line, read on a connected
\* link after its last update.
C12_Witness ==
    /\ LineHandled /\ ~lastRet /\ overflows > 0 /\ msg = RejectedMsg
    /\ pre.connected /\ now > pre.last_update

\* the steps of the loop the claims name
CheckStep == pc = "checkConnectionStatus" /\ pc' = "managePowerSaving"
ManageStep == pc = "managePowerSaving" /\ pc' = "updateDisplay"
DisplayStep == pc = "updateDisplay" /\ pc' = "delay"

\* C13: checkConnectionStatus, run while connected with now - last_update >
\* 5000, sets connected false and disconnect_time to now; otherwise it
\* changes nothing; right after the check, connected implies
\* now - last_update <= 5000.
C13_Timeout ==
    [][CheckStep =>
        /\ metrics' = IF metrics.connected /\ now - metrics.last_update > 5000
                      THEN [metrics EXCEPT !.connected = FALSE,
                                           !.disconnect_time = now]
                      ELSE metrics
        /\ metrics'.connected => now - metrics'.last_update <= 5000]_vars

\* C13 witness: the last valid message came at 0 and the check at 5001 has
\* disconnected the link.
C13_Witness ==
    /\ pc = "managePowerSaving" /\ now = 5001
    /\ metrics.last_update = 0 /\ metrics.cpu_usage = 452
    /\ ~metrics.connected /\ metrics.disconnect_time = 5001

\* C14: disconnect_time is written only when connected goes from true to
\* false, which only the check does; connected goes back to true only by an
\* accepted line, so it falls at most once between two accepted messages;
\* a check on a disconnected link changes neither.
C14_OneDisconnect ==
    [][/\ metrics'.disconnect_time # metrics.disconnect_time
            => (metrics.connected /\ ~metrics'.connected)
       /\ (metrics.connected /\ ~metrics'.connected) => CheckStep
       /\ (~metrics.connected /\ metrics'.connected)
            => (pc = "processSerialData" /\ lastRet')
       /\ (CheckStep /\ ~metrics.connected) => Link(metrics') = Link(metrics)]_vars

\* C14 witness: a link that was connected has timed out at 5001 and a later
\* check has run on it.
C14_Witness ==
    /\ pc = "managePowerSaving" /\ now > 5001
    /\ metrics.cpu_usage = 452 /\ metrics.last_update = 0
    /\ ~metrics.connected /\ metrics.disconnect_time = 5001

\* C15: managePowerSaving turns power_save_mode from false to true exactly
\* when connected is false and now - disconnect_time > 10000; nothing else
\* turns it on, so power save is never active within 10000 ms of the last
\* disconnect.
C15_Entry ==
    /\ [](metrics.power_save_mode => now - metrics.disconnect_time > 10000)
    /\ [][/\ (ManageStep /\ ~metrics.power_save_mode)
               => (metrics'.power_save_mode
                     <=> (~metrics.connected
                            /\ now - metrics.disconnect_time > 10000))
          /\ (~metrics.power_save_mode /\ metrics'.power_save_mode)
               => ManageStep]_vars

\* C15 witness: after the disconnect at 5001, the evaluation at 15002 has
\* entered power save.
C15_Witness ==
    /\ pc = "updateDisplay" /\ now = 15002 /\ metrics.disconnect_time = 5001
    /\ metrics.power_save_mode /\ calls # <<>>

\* C16: when a line is accepted, managePowerSaving of the same iteration
\* leaves power save, and requests the normal backlight and 160 MHz if it
\* was active, before updateDisplay runs.
C16_ExitSameIteration ==
    (pc = "updateDisplay" /\ lastRet)
        => /\ ~metrics.power_save_mode
           /\ backlight = NORMAL_BACKLIGHT /\ cpuMhz = 160
           /\ pre.power_save_mode
                => calls = <<Request("Set_Backlight", NORMAL_BACKLIGHT),
                             Request("setCpuFrequencyMhz", 160)>>

\* C16 witness: a line was accepted in power save and updateDisplay is next.
C16_Witness ==
    pc = "updateDisplay" /\ lastRet /\ pre.power_save_mode /\ backlight = 5

\* C17: after managePowerSaving, up to the next processSerialData,
\* power_save_mode implies that the link is not connected.
C17_NormalWhileConnected ==
    pc \in {"updateDisplay", "delay", "processSerialData"}
        => (metrics.power_save_mode => ~metrics.connected)

\* C17 witness: the link is connected more than 10000 ms after the last
\* disconnect, and managePowerSaving has run.
C17_Witness ==
    /\ pc = "updateDisplay" /\ metrics.connected
    /\ metrics.disconnect_time > 0 /\ now - metrics.disconnect_time > 10000

\* the power state the loop holds, with no request issued yet
PowerState ==
    [metrics |-> metrics, backlight |-> backlight, cpuMhz |-> cpuMhz, calls |-> <<>>]

EnterRequests ==
    <<Request("Set_Backlight", 0), Request("setCpuFrequencyMhz", 80)>>
ExitRequests ==
    <<Request("Set_Backlight", 5), Request("setCpuFrequencyMhz", 160)>>

\* C18: the power-save requests are issued only when power_save_mode goes
\* from false to true, the restore requests only when it goes from true to
\* false; enterPowerSaveMode, exitPowerSaveMode and managePowerSaving in the
\* target state issue nothing; the backlight is 0 exactly in power save, 5
\* otherwise.
C18_OncePerTransition ==
    /\ [](/\ backlight = IF metrics.power_save_mode THEN 0 ELSE 5
          /\ metrics.power_save_mode => enterPowerSaveMode(PowerState) = PowerState
          /\ ~metrics.power_save_mode => exitPowerSaveMode(PowerState) = PowerState
          /\ managePowerSaving([managePowerSaving(PowerState, now)
                                    EXCEPT !.calls = <<>>], now).calls = <<>>)
    /\ [][calls' = IF ~metrics.power_save_mode /\ metrics'.power_save_mode
                   THEN EnterRequests
                   ELSE IF metrics.power_save_mode /\ ~metrics'.power_save_mode
                   THEN ExitRequests
                   ELSE <<>>]_vars

\* C18 witness: managePowerSaving has run again in power save and issued
\* no request.
C18_Witness ==
    /\ pc = "updateDisplay" /\ metrics.power_save_mode /\ calls = <<>>
    /\ backlight = 0 /\ cpuMhz = 80

\* the record with every field the decoder writes at its initial value
LinkAndPowerOnly(m) ==
    [InitMetrics EXCEPT !.connected = m.connected,
                        !.disconnect_time = m.disconnect_time,
                        !.power_save_mode = m.power_save_mode]

C20_Throttle ==
    /\ [](prevUpdate >= 0 => lastUpdate - prevUpdate >= 500)
    /\ [][(ui' # ui \/ lastUpdate' # lastUpdate)
            => (DisplayStep /\ now - lastUpdate >= 500
                /\ lastUpdate' = now /\ ui' = Shown(metrics))]_vars

\* C20 witness: a second propagation has shown the values of an accepted
\* message.
C20_Witness ==
    /\ pc = "delay" /\ prevUpdate >= 0 /\ lastUpdate = now
    /\ ui = Shown(metrics) /\ metrics.cpu_usage = 452 /\ metrics.fan_rpm = 1500

---------------------------------------------------------------------------
(* Claims about the reader, checked under SpecRead.                        *)

\* a step of processSerialData
ReadStep == pc = "processSerialData" /\ pc' = "checkConnectionStatus"

\* the bytes that step consumes
Chunk == SubSeq(sent', Len(sent) + 1, Len(sent'))

\* TRUE when no byte of s is a terminator
NoTerminator(s) == \A i \in 1..Len(s) : ~IsTerminator(CharAt(s, i))

\* the last n bytes of s
LastBytes(s, n) == SubSeq(s, Len(s) - n + 1, Len(s))

\* everything has been consumed, the last byte just now
StreamRead == stream = "" /\ sent # "" /\ pc = "checkConnectionStatus"

\* the stream has arrived one byte in each iteration so far
ByteWise == now = 5 * (IF pc = "checkConnectionStatus" THEN Len(sent) - 1 ELSE Len(sent))

\* C21: a terminator read while the buffer is not empty has the decoder
\* called once, on the buffer, which holds the last bytes consumed and no
\* terminator, and leaves the buffer empty; a terminator read while the
\* buffer is empty calls nothing and changes nothing, so that a line ended
\* by CR LF is decoded once.
C21_LineFraming ==
    /\ [](serialBuffer = LastBytes(sent, bufferIndex) /\ NoTerminator(serialBuffer))
    /\ []((stream = "" /\ sent = ValidLine \o "\r\n" \o ValidLine \o "\n")
            => lines = <<ValidLine, ValidLine>>)
    /\ [][(ReadStep /\ Len(Chunk) = 1 /\ IsTerminator(Chunk)) =>
            IF serialBuffer # ""
            THEN decoded' = <<serialBuffer>> /\ serialBuffer' = ""
            ELSE /\ decoded' = <<>> /\ overflows' = 0
                 /\ UNCHANGED <<metrics, serialBuffer, now, lastUpdate,
                                backlight, cpuMhz, ui, lines, reports>>]_vars

\* C21 witness: the LF of a CR LF has been read, byte by byte, after the
\* CR had the line decoded.
C21_Witness ==
    /\ pc = "checkConnectionStatus" /\ ByteWise
    /\ sent = ValidLine \o "\r\n"
    /\ decoded = <<>> /\ lines = <<ValidLine>> /\ serialBuffer = ""

\* what the overflow branch leaves alone
Untouched == UNCHANGED <<metrics, backlight, cpuMhz>>

\* C22: a byte other than a terminator, read while the buffer holds
\* SERIAL_BUFFER_SIZE - 1 bytes, empties the buffer, is reported as an
\* overflow, passes nothing to the decoder and leaves the store, the
\* backlight and the CPU frequency as they are; with fewer bytes in the
\* buffer the byte is appended, and the bytes that follow an overflow are
\* read on.
C22_OverflowGuard ==
    /\ [][(ReadStep /\ Len(Chunk) = 1 /\ ~IsTerminator(Chunk)) =>
            IF bufferIndex = SERIAL_BUFFER_SIZE - 1
            THEN /\ serialBuffer' = "" /\ overflows' = 1 /\ decoded' = <<>>
                 /\ Untouched
            ELSE /\ serialBuffer' = serialBuffer \o Chunk /\ overflows' = 0
                 /\ decoded' = <<>> /\ Untouched]_vars
    /\ [][(ReadStep /\ overflows' > 0 /\ decoded' = <<>>) => Untouched]_vars
    /\ [](\A i \in DOMAIN lines : Len(lines[i]) < SERIAL_BUFFER_SIZE)

\* C22 witness: a byte has overflowed the buffer while the link was
\* connected.
C22_Witness ==
    /\ pc = "checkConnectionStatus" /\ ByteWise
    /\ sent = ValidLine \o "\n" \o Filler(SERIAL_BUFFER_SIZE)
    /\ overflows = 1 /\ decoded = <<>> /\ serialBuffer = ""
    /\ metrics.connected /\ metrics.cpu_usage = 452

\* what one call of processSerialData after boot makes of the bytes s
Whole(s) ==
    ReadBytes([metrics |-> InitMetrics, buf |-> "", lastLine |-> "",
               lastRet |-> FALSE, lastErr |-> "", pre |-> InitMetrics,
               over |-> 0, decoded |-> <<>>], s, 1, 0)

\* C23: however the bytes consumed so far were split over the calls of
\* processSerialData, the lines passed to the decoder, the overflows
\* reported and the buffer are those of one call on all of them.
C23_ChunkingIndependent ==
    /\ lines = Whole(sent).decoded
    /\ reports = Whole(sent).over
    /\ serialBuffer = Whole(sent).buf

\* C23 witness: a stream with two overflows and two lines has been read
\* one byte in each iteration.
C23_Witness ==
    /\ StreamRead /\ ByteWise
    /\ reports = 2 /\ Len(lines) = 2 /\ lines[2] = FullLine

\* TRUE when s is empty or ends with a terminator
EndsLine(s) == s = "" \/ IsTerminator(CharAt(s, Len(s)))

\* C25: when the bytes consumed are any of the preambles that end a line,
\* then a valid line and its terminator, the decoder has been passed that
\* line last, has accepted it, and the link is connected.
C25_Recovery ==
    StreamRead =>
        \A p0 \in Preambles, line \in LastLines :
            (EndsLine(p0) /\ sent = p0 \o line \o "\n") =>
                /\ lines # <<>> /\ lines[Len(lines)] = line
                /\ lastLine = line /\ lastRet /\ metrics.connected
                /\ metrics.last_update = now /\ serialBuffer = ""

\* C25 witness: a line of SERIAL_BUFFER_SIZE - 1 bytes has been accepted
\* after two overflows and a rejected line.
C25_Witness ==
    /\ StreamRead /\ reports = 2 /\ Len(lines) = 2
    /\ lastLine = FullLine /\ lastRet /\ metrics.connected

\* C27: bufferIndex stays within 0 .. SERIAL_BUFFER_SIZE - 1, and a line
\* passed to the decoder has 1 to SERIAL_BUFFER_SIZE - 1 bytes, none of them
\* a terminator.
C27_IndexBound ==
    /\ 0 <= bufferIndex /\ bufferIndex <= SERIAL_BUFFER_SIZE - 1
    /\ \A i \in DOMAIN lines :
          /\ 1 <= Len(lines[i]) /\ Len(lines[i]) <= SERIAL_BUFFER_SIZE - 1
          /\ NoTerminator(lines[i])

\* C27 witness: the buffer holds SERIAL_BUFFER_SIZE - 1 bytes after a line
\* of that length has been decoded.
C27_Witness ==
    /\ bufferIndex = SERIAL_BUFFER_SIZE - 1
    /\ lines = <<FullLine>>

\* C28: after SERIAL_BUFFER_SIZE bytes without a terminator the buffer is
\* empty and one overflow is reported; the bytes that follow are collected
\* as a line of their own, and when they are a valid line the decoder is
\* passed that line, accepts it and the link is connected.
C28_TailDecoded ==
    /\ (Len(sent) >= SERIAL_BUFFER_SIZE /\ Len(sent) < 2 * SERIAL_BUFFER_SIZE
        /\ NoTerminator(sent))
        => (serialBuffer = SubSeq(sent, SERIAL_BUFFER_SIZE + 1, Len(sent))
            /\ reports = 1 /\ lines = <<>>)
    /\ \A line \in LastLines :
          (StreamRead /\ sent = Filler(SERIAL_BUFFER_SIZE) \o line \o "\n")
          => (lines = <<line>> /\ reports = 1 /\ lastRet
              /\ metrics.connected /\ metrics.cpu_usage = 452)

\* C28 witness: the valid tail of an overlong line has been accepted.
C28_Witness ==
    /\ StreamRead /\ sent = Filler(SERIAL_BUFFER_SIZE) \o ValidLine \o "\n"
    /\ lines = <<ValidLine>> /\ reports = 1 /\ metrics.connected

---------------------------------------------------------------------------
(* Claims about start-up, the timers from boot, and unparseable values.    *)

\* the clock readings from which the clock of the model moves no further
Settled == {t \in Instants : \A u \in Instants : u < t + DelayMs(InitMetrics)}

\* the earliest of them: every run under SpecLive reaches this reading
Horizon == CHOOSE t \in Settled : \A u \in Settled : t <= u

\* processSerialData has just accepted a line
JustAccepted == pc = "checkConnectionStatus" /\ lastRet

\* C24: under a loop that keeps running, a connected link is eventually
\* disconnected unless another line is accepted; a disconnected link
\* eventually has power save entered unless a line is accepted; and power
\* save, once entered, is left only in an iteration that accepted a line.
\* (From the states that leave the clock of the model room for the timer
\* to run out.)
C24_WallClock ==
    /\ (metrics.connected /\ ~JustAccepted
          /\ metrics.last_update + DATA_TIMEOUT_MS < Horizon)
       ~> (~metrics.connected \/ JustAccepted)
    /\ (~metrics.connected
          /\ metrics.disconnect_time + POWER_SAVE_DELAY_MS < Horizon)
       ~> (metrics.power_save_mode \/ metrics.connected)
    /\ [][(metrics.power_save_mode /\ ~metrics'.power_save_mode)
            => (lastRet /\ metrics.connected /\ metrics.last_update = now)]_vars

\* C24 witness: power save has been entered 10 s after a timeout, in an
\* iteration that read an overlong line with a rejected tail.
C24_Witness ==
    /\ pc = "updateDisplay" /\ metrics.power_save_mode /\ ~metrics.connected
    /\ metrics.disconnect_time = DATA_TIMEOUT_MS + 1
    /\ msg = RejectedMsg /\ overflows = 1 /\ ~lastRet

\* C26: when loop() first runs the link is disconnected with both time
\* stamps 0, power save is off with the backlight at the normal level, the
\* buffer is empty, the required fields and the optional fields are 0 and
\* battery_percent is -1.
C26_InitialState ==
    (now = 0 /\ pc = "processSerialData") =>
        /\ ~metrics.connected
        /\ metrics.last_update = 0 /\ metrics.disconnect_time = 0
        /\ ~metrics.power_save_mode /\ backlight = NORMAL_BACKLIGHT
        /\ bufferIndex = 0
        /\ metrics.battery_percent = -1
        /\ \A f \in RecordFields \ {"battery_percent"} : metrics[f] = 0

\* C26 witness: the state before the first call of processSerialData.
C26_Witness ==
    /\ now = 0 /\ pc = "processSerialData"
    /\ ~metrics.connected /\ metrics.battery_percent = -1 /\ ui = <<>>

\* no line has been accepted since boot
NeverAccepted ==
    ~metrics.connected /\ metrics.disconnect_time = 0 /\ metrics.last_update = 0

\* C29: while no line has been accepted since boot, managePowerSaving
\* leaves power save on exactly when millis() > POWER_SAVE_DELAY_MS, so it
\* is entered at the first such evaluation; and power save with
\* disconnect_time = 0 is entered in no other way, so not once a line has
\* been accepted.
C29_PowerSaveFromBoot ==
    /\ [][(ManageStep /\ NeverAccepted)
            => (metrics'.power_save_mode = (now > POWER_SAVE_DELAY_MS))]_vars
    /\ [][(~metrics.power_save_mode /\ metrics'.power_save_mode
             /\ metrics.disconnect_time = 0)
            => (ManageStep /\ NeverAccepted /\ now > POWER_SAVE_DELAY_MS)]_vars
    /\ []((metrics.connected /\ metrics.disconnect_time = 0
            /\ metrics.last_update <= POWER_SAVE_DELAY_MS)
           => ~metrics.power_save_mode)

\* C29 witness: power save has been entered at 10001 ms by a device that
\* never accepted a line.
C29_Witness ==
    /\ pc = "updateDisplay" /\ now = POWER_SAVE_DELAY_MS + 1
    /\ NeverAccepted /\ metrics.power_save_mode /\ backlight = POWER_SAVE_BACKLIGHT

\* the field a required key writes
RequiredField(k) == FieldsOf(k)[1]

\* C30: a line with a checksum token after its first token and all three
\* required keys, each with an in-range number or with a value that atof
\* converts nothing from, is accepted; the fields of the latter hold 0, the
\* others the number sent, and the link is connected.
C30_UnparseableAsZero ==
    (/\ Decoded /\ ChecksumAfterFirst(msg)
     /\ \A k \in RequiredKeys : InRange(msg, k) \/ Malformed(msg, k)
     /\ \E k \in RequiredKeys : Malformed(msg, k))
    => /\ lastRet /\ lastErr = ""
       /\ metrics.connected
       /\ \A k \in RequiredKeys :
             IF Malformed(msg, k)
             THEN metrics[RequiredField(k)] = 0
             ELSE StoredAsSent(metrics, msg, k)

\* C30 witness: a line with CPU:abc has been accepted with cpu_usage 0.
C30_Witness ==
    /\ Decoded /\ Malformed(msg, "CPU") /\ InRange(msg, "RAM")
    /\ lastRet /\ metrics.connected
    /\ metrics.cpu_usage = 0 /\ metrics.ram_usage = 678

---------------------------------------------------------------------------
(* The claim about the wrap of the counter, checked under SpecWrap.        *)

\* The time that has truly passed since the reading stamp was taken, for a
\* stamp taken within the readings explored: these lie within 2^31 of the
\* wrap, where the integers that stand for them are in the order of time.
Elapsed(stamp) == now - stamp

\* the stamp was taken before the wrap and the counter has wrapped since
Wrapped(stamp) == stamp < 0 /\ now >= 0

\* C31: around the wrap of the counter the link is timed out exactly when
\* more than DATA_TIMEOUT_MS have truly passed since the last accepted line,
\* power save is entered exactly when more than POWER_SAVE_DELAY_MS have
\* truly passed since the disconnect, the display is updated exactly when
\* DISPLAY_INTERVAL_MS or more have truly passed since the last update, and
\* power save is left only with the link connected.
C31_Wraparound ==
    /\ [][(CheckStep /\ metrics.connected)
            => (metrics'.connected
                  <=> Elapsed(metrics.last_update) <= DATA_TIMEOUT_MS)]_vars
    /\ [][(ManageStep /\ ~metrics.connected /\ ~metrics.power_save_mode)
            => (metrics'.power_save_mode
                  <=> Elapsed(metrics.disconnect_time) > POWER_SAVE_DELAY_MS)]_vars
    /\ [][DisplayStep
            => ((lastUpdate' = now /\ ui' = Shown(metrics))
                  <=> Elapsed(lastUpdate) >= DISPLAY_INTERVAL_MS)]_vars
    /\ [][(metrics.power_save_mode /\ ~metrics'.power_save_mode)
            => (ManageStep /\ metrics.connected)]_vars

\* C31 witness: a line was accepted 1 ms before the wrap, the counter has
\* wrapped, and the check run DATA_TIMEOUT_MS after the line has left the
\* link connected.
C31_Witness ==
    /\ pc = "managePowerSaving" /\ metrics.connected
    /\ Wrapped(metrics.last_update)
    /\ metrics.last_update = BeforeWrap(1) /\ now = DATA_TIMEOUT_MS - 1

===========================================================================
